---- MODULE Spec2Model ----
(***************************************************************************)
(* Verification model of the two-level open-addressing table               *)
(* (src/double_key_table.py, class DoubleKeyTable) on top of the           *)
(* single-key linear-probing table it imports from                         *)
(* data_structures/hash_table.py.  The linear-probing table is not part    *)
(* of the sources at hand; it is modelled from section 4.1 of the          *)
(* specification (probe / set / delete / resize).                          *)
(*                                                                         *)
(* Keys are Python strings, modelled as sequences of character codes.      *)
(* A slot of a backing array is None (the empty tuple) or the Python       *)
(* tuple (key, value), modelled as <<key, value>>.                         *)
(*                                                                         *)
(* The trie of 27-slot nodes (src/infinite_hash_table.py, class            *)
(* InfiniteHashTable) is modelled next to it, with its own variables and   *)
(* its own specification SpecTrie.                                         *)
(***************************************************************************)
EXTENDS Integers, Sequences, FiniteSets, TLC

VARIABLES outer_table, count, sizes, internal_sizes, stored, last, trip,
          trie, tstored, tlast,
          org_mountains, added, olast, search,
          mountain_manager, held, latest, mlast,
          walk

dktvars == <<outer_table, count, sizes, internal_sizes, stored, last, trip>>
trievars == <<trie, tstored, tlast>>
orgvars == <<org_mountains, added, olast>>
mgrvars == <<mountain_manager, held, latest, mlast>>
trailvars == <<walk>>
restvars == <<orgvars, search, mgrvars, trailvars>>
vars == <<dktvars, trievars, restvars>>

(***************************************************************************)
(* Bounds and input domains                                                *)
(***************************************************************************)
\* the running count of DoubleKeyTable only ever grows; a set succeeds
\* only while it leaves the count within this bound
MaxCount == 2

\* "a", "b", "k": in capacity 2 "a" and "k" hash to slot 1 and "b" to
\* slot 0, in capacity 5 "a" and "k" hash to slot 2 and "b" to slot 3
Keys1 == {<<97>>, <<98>>, <<107>>}
\* "a", "ak": both hash to slot 1 in capacity 2, to slots 2 and 4 in
\* capacity 5
Keys2 == {<<97>>, <<97, 107>>}
Values == {"v1", "v2"}

\* a node count of the trie moves away from the number of leaves beneath
\* the node in both directions; an operation is taken only while it leaves
\* every node count within -MaxTrieDeficit .. MaxTrieCount
MaxTrieCount == 3
MaxTrieDeficit == 1

\* "", "aa", "aaa", "aaaa", "ax": 'a' hashes to slot 19 and 'x' to slot 16;
\* the keys in "a" collide at level 0, those in "aa" at level 1 as well
TrieKeys == {<<>>, <<97, 97>>, <<97, 97, 97>>, <<97, 97, 97, 97>>, <<97, 120>>}

\* the organiser holds at most this many mountains, and a list handed to
\* add_mountains at most MaxAdded
MaxMountains == 3
MaxAdded == 2

\* the longest list binary_search is tried on
MaxSearchLen == 3

\* the running count of the manager's table only ever grows; a mountain is
\* added only while that leaves the count within this bound
MaxManagerCount == 4

\* _linear_probe creates an inner table only while that leaves at most
\* MaxProbeTables such tables in the outer table
MaxProbeTables == 1

\* capacity sequences handed to the constructor; a capacity is at least 2,
\* as hash1 and hash2 reduce the coefficient modulo table_size - 1
SizesChoices == {<<2>>, <<2, 5>>}
InternalSizesChoices == {<<2>>, <<2, 5>>}

None == <<>>
NoValue == "NoValue"

Range(seq) == {seq[i] : i \in DOMAIN seq}

(***************************************************************************)
(* Hashing: DoubleKeyTable.hash1 / hash2                                   *)
(***************************************************************************)
HASH_BASE == 31

table_size(t) == t.TABLE_SIZES[t.size_index]

RECURSIVE PolyHash(_, _, _, _, _)
PolyHash(key, i, value, a, size) ==
    IF i > Len(key) THEN value
    ELSE PolyHash(key, i + 1, (key[i] + a * value) % size,
                  (a * HASH_BASE) % (size - 1), size)

\* hash1(key): the polynomial hash reduced modulo the outer table's size
hash1(key, table) == PolyHash(key, 1, 0, 31415, table_size(table))

\* variant: reduces modulo the outer table's size (self.table_size)
hash2_outer_size(key, sub_table) ==
    PolyHash(key, 1, 0, 31415, table_size(outer_table)) % table_size(sub_table)

\* hash2(key, sub_table): the same, modulo the size of the sub table
hash2(key, sub_table) == PolyHash(key, 1, 0, 31415, table_size(sub_table))

\* the hash1 that MountainManager.__init__ assigns to its table: the int
\* key modulo the table's size.  An int key is the one-element sequence of
\* its value, so that the keys of all tables are sequences.
manager_hash1(key, table) == key[1] % table_size(table)

\* the hash attribute assigned to a table after its construction
TableHash(t, key) ==
    IF t.hash = "hash1" THEN hash1(key, t)
    ELSE IF t.hash = "manager_hash1" THEN manager_hash1(key, t)
    ELSE IF t.hash = "hash2_of_key2" THEN hash2(t.key2, t)
    ELSE hash2(key, t)

(***************************************************************************)
(* Single-key linear-probing table (specification section 4.1)             *)
(***************************************************************************)
LinearProbeTable(szs, h) ==
    [TABLE_SIZES |-> szs, size_index |-> 1, hash |-> h, count |-> 0,
     array |-> [i \in 0..(szs[1] - 1) |-> None]]

RECURSIVE ProbeFrom(_, _, _, _, _)
ProbeFrom(t, key, is_insert, position, remaining) ==
    IF remaining = 0
    THEN [exc |-> IF is_insert THEN "FullError" ELSE "KeyError", pos |-> 0]
    ELSE IF t.array[position] = None
    THEN IF is_insert THEN [exc |-> "none", pos |-> position]
                      ELSE [exc |-> "KeyError", pos |-> 0]
    ELSE IF t.array[position][1] = key
    THEN [exc |-> "none", pos |-> position]
    ELSE ProbeFrom(t, key, is_insert, (position + 1) % table_size(t),
                   remaining - 1)

\* probe(key, forInsert)
LPT_linear_probe(t, key, is_insert) ==
    ProbeFrom(t, key, is_insert, TableHash(t, key), table_size(t))

LPT_contains(t, key) == LPT_linear_probe(t, key, FALSE).exc = "none"

\* get(key): [exc, val]
LPT_getitem(t, key) ==
    LET p == LPT_linear_probe(t, key, FALSE)
    IN  IF p.exc = "none" THEN [exc |-> "none", val |-> t.array[p.pos][2]]
        ELSE [exc |-> p.exc, val |-> NoValue]

Occupied(t) == {i \in DOMAIN t.array : t.array[i] # None}

\* put one pair into a table that has a free slot, without resize check
Place(t, item) ==
    LET p == LPT_linear_probe(t, item[1], TRUE)
    IN  [t EXCEPT !.array[p.pos] = item,
                  !.count = IF t.array[p.pos] = None THEN @ + 1 ELSE @]

RECURSIVE Reinsert(_, _, _, _)
Reinsert(t, old_array, order, i) ==
    IF i > Len(order) THEN t
    ELSE Reinsert(Place(t, old_array[order[i]]), old_array, order, i + 1)

\* the orders in which the pairs of a table may be reinserted
Orders(t) ==
    LET occ == Occupied(t)
        n == Cardinality(occ)
    IN  {o \in [1..n -> occ] : \A i, j \in 1..n : o[i] = o[j] => i = j}

\* resize: the tables that growing to the next capacity may produce, one
\* for every order in which the pairs are reinserted
LPT_rehash(t) ==
    LET fresh == [t EXCEPT !.size_index = @ + 1, !.count = 0,
                    !.array = [i \in 0..(t.TABLE_SIZES[t.size_index + 1] - 1)
                                  |-> None]]
    IN  {Reinsert(fresh, t.array, o, 1) : o \in Orders(t)}

\* set(key, data): the set of possible outcomes [exc, t].  A set that
\* fails leaves the table unmodified (section 5).  When a new key lifts the
\* occupancy above half of the last configured capacity, section 4.1 has
\* the growth fail with "table cannot grow further", while the scenario of
\* section 8 stores three keys in a table of capacity sequence [5]: both
\* outcomes are possible here, the key is refused with FullError or it
\* is kept in the table as it is.
LPT_setitem(t, key, data) ==
    LET p == LPT_linear_probe(t, key, TRUE)
    IN  IF p.exc # "none" THEN {[exc |-> p.exc, t |-> t]}
        ELSE LET is_new == t.array[p.pos] = None
                 t1 == [t EXCEPT !.array[p.pos] = <<key, data>>,
                            !.count = IF is_new THEN @ + 1 ELSE @]
             IN  IF 2 * t1.count <= table_size(t1)
                 THEN {[exc |-> "none", t |-> t1]}
                 ELSE IF t.size_index < Len(t.TABLE_SIZES)
                 THEN {[exc |-> "none", t |-> t2] : t2 \in LPT_rehash(t1)}
                 ELSE IF is_new
                 THEN {[exc |-> "none", t |-> t1], [exc |-> "FullError", t |-> t]}
                 ELSE {[exc |-> "none", t |-> t1]}

\* after a slot is freed, the pairs of the cluster that follows it are
\* taken out and probed in again, so that no probe chain is cut
RECURSIVE Reshuffle(_, _)
Reshuffle(t, position) ==
    IF t.array[position] = None THEN t
    ELSE LET item == t.array[position]
             t1 == [t EXCEPT !.array[position] = None]
             p == LPT_linear_probe(t1, item[1], TRUE)
         IN  Reshuffle([t1 EXCEPT !.array[p.pos] = item],
                       (position + 1) % table_size(t))

\* delete(key): [exc, t]
LPT_delitem(t, key) ==
    LET p == LPT_linear_probe(t, key, FALSE)
    IN  IF p.exc # "none" THEN [exc |-> p.exc, t |-> t]
        ELSE [exc |-> "none",
              t |-> Reshuffle([t EXCEPT !.array[p.pos] = None, !.count = @ - 1],
                              (p.pos + 1) % table_size(t))]

LPT_len(t) == t.count

(***************************************************************************)
(* DoubleKeyTable                                                          *)
(***************************************************************************)
\* An inner table is a Python object referenced from the outer slot: what
\* is done to it is seen through the outer table.  WithInner writes the
\* inner table's new contents into the slot that references it.
WithInner(ot, key1, inner) ==
    LET p == LPT_linear_probe(ot, key1, FALSE)
    IN  [ot EXCEPT !.array[p.pos] = <<key1, inner>>]

\* __getitem__: [exc, val]
DKT_getitem(ot, key1, key2) ==
    LET g == LPT_getitem(ot, key1)
    IN  IF g.exc # "none" THEN [exc |-> g.exc, val |-> NoValue]
        ELSE LPT_getitem(g.val, key2)

\* variant: looks for key1 only
DKT_contains_key1_only(ot, key1, key2) == LPT_contains(ot, key1)

\* __contains__: get, catching KeyError
DKT_contains(ot, key1, key2) ==
    DKT_getitem(ot, key1, key2).exc # "KeyError"

\* variant: the count is incremented on every set
IncrementCount_always(inner_table, key2) == TRUE

\* __setitem__, lines 274-277: is a new (key, value) pair being added
IncrementCount(inner_table, key2) == ~LPT_contains(inner_table, key2)

\* variant: the count is incremented before the inner table is written
SetExisting_count_first(ot, cnt, key1, key2, data) ==
    LET inner_table == LPT_getitem(ot, key1).val
        cnt1 == IF ~LPT_contains(inner_table, key2) THEN cnt + 1 ELSE cnt
    IN  {IF r.exc # "none"
         THEN [exc |-> r.exc, outer_table |-> ot, count |-> cnt1]
         ELSE [exc |-> "none", outer_table |-> WithInner(ot, key1, r.t),
               count |-> cnt1]
         : r \in LPT_setitem(inner_table, key2, data)}

\* __setitem__ when key1 is in the outer table: outcomes
\* [exc, outer_table, count]
SetExisting(ot, cnt, key1, key2, data) ==
    LET inner_table == LPT_getitem(ot, key1).val
        increment_count == IncrementCount(inner_table, key2)
    IN  {IF r.exc # "none"
         THEN [exc |-> r.exc, outer_table |-> ot, count |-> cnt]
         ELSE [exc |-> "none", outer_table |-> WithInner(ot, key1, r.t),
               count |-> IF increment_count THEN cnt + 1 ELSE cnt]
         : r \in LPT_setitem(inner_table, key2, data)}

\* __setitem__ when key1 is not in the outer table: a new inner table is
\* attached under key1 before key2 is set in it
SetNew(ot, cnt, isz, key1, key2, data) ==
    LET inner_table == LinearProbeTable(isz, "hash2")
    IN  UNION {IF r1.exc # "none"
               THEN {[exc |-> r1.exc, outer_table |-> ot, count |-> cnt]}
               ELSE {IF r2.exc # "none"
                     THEN [exc |-> r2.exc, outer_table |-> r1.t, count |-> cnt]
                     ELSE [exc |-> "none",
                           outer_table |-> WithInner(r1.t, key1, r2.t),
                           count |-> cnt + 1]
                     : r2 \in LPT_setitem(inner_table, key2, data)}
               : r1 \in LPT_setitem(ot, key1, inner_table)}

\* __setitem__
DKT_setitem(ot, cnt, isz, key1, key2, data) ==
    IF LPT_contains(ot, key1)
    THEN SetExisting(ot, cnt, key1, key2, data)
    ELSE SetNew(ot, cnt, isz, key1, key2, data)

\* variant: the outer key is deleted whatever is left in its inner table
DiscardIfEmpty_always(ot, key1, inner_table) ==
    LPT_delitem(WithInner(ot, key1, inner_table), key1).t

\* variant: an empty inner table stays in the outer table
DiscardIfEmpty_never(ot, key1, inner_table) == WithInner(ot, key1, inner_table)

\* variant: the outer slot of an empty inner table is cleared in place
DiscardIfEmpty_clear_slot(ot, key1, inner_table) ==
    IF LPT_len(inner_table) = 0
    THEN [ot EXCEPT !.array[LPT_linear_probe(ot, key1, FALSE).pos] = None,
                    !.count = @ - 1]
    ELSE WithInner(ot, key1, inner_table)

\* __delitem__, lines 340-341: an inner table left empty is deleted from
\* the outer table
DiscardIfEmpty(ot, key1, inner_table) ==
    IF LPT_len(inner_table) = 0
    THEN LPT_delitem(WithInner(ot, key1, inner_table), key1).t
    ELSE WithInner(ot, key1, inner_table)

\* __delitem__: [exc, outer_table, count]
DKT_delitem(ot, cnt, key1, key2) ==
    LET g == LPT_getitem(ot, key1)
    IN  IF g.exc # "none"
        THEN [exc |-> g.exc, outer_table |-> ot, count |-> cnt]
        ELSE LET d == LPT_delitem(g.val, key2)
             IN  IF d.exc # "none"
                 THEN [exc |-> d.exc, outer_table |-> ot, count |-> cnt]
                 ELSE [exc |-> "none",
                       outer_table |-> DiscardIfEmpty(ot, key1, d.t),
                       count |-> cnt]

\* _linear_probe, lines 119-121: the inner table it creates hashes every
\* key as the key2 of the call (lambda k: self.hash2(key2, inner_table))
ProbeInnerTable(isz, key2) ==
    [TABLE_SIZES |-> isz, size_index |-> 1, hash |-> "hash2_of_key2",
     count |-> 0, array |-> [i \in 0..(isz[1] - 1) |-> None], key2 |-> key2]

\* lines 126-128: the positions of key1 and key2, or what the probe of the
\* inner table raises
ProbePositions(ot, cnt, inner_table, key1, key2, is_insert) ==
    LET p1 == LPT_linear_probe(ot, key1, is_insert)
        p2 == LPT_linear_probe(inner_table, key2, is_insert)
    IN  IF p1.exc # "none"
        THEN [exc |-> p1.exc, outer_table |-> ot, count |-> cnt,
              pos |-> <<0, 0>>]
        ELSE IF p2.exc # "none"
        THEN [exc |-> p2.exc, outer_table |-> ot, count |-> cnt,
              pos |-> <<0, 0>>]
        ELSE [exc |-> "none", outer_table |-> ot, count |-> cnt,
              pos |-> <<p1.pos, p2.pos>>]

\* variant: an inner table is created for the probe and not attached
AttachInner_never(ot, key1, inner_table) == {[exc |-> "none", t |-> ot]}

\* _linear_probe, line 122: self.outer_table[key1] = inner_table
AttachInner(ot, key1, inner_table) == LPT_setitem(ot, key1, inner_table)

\* _linear_probe: outcomes [exc, outer_table, count, pos]
DKT_linear_probe(ot, cnt, isz, key1, key2, is_insert) ==
    IF LPT_contains(ot, key1)
    THEN {ProbePositions(ot, cnt, LPT_getitem(ot, key1).val, key1, key2,
                         is_insert)}
    ELSE IF is_insert
    THEN LET inner_table == ProbeInnerTable(isz, key2)
         IN  {IF r.exc # "none"
              THEN [exc |-> r.exc, outer_table |-> ot, count |-> cnt,
                    pos |-> <<0, 0>>]
              ELSE ProbePositions(r.t, cnt, inner_table, key1, key2, is_insert)
              : r \in AttachInner(ot, key1, inner_table)}
    ELSE {[exc |-> "KeyError", outer_table |-> ot, count |-> cnt,
           pos |-> <<0, 0>>]}

\* for item in table.array: if item is not None: yield item[0]
RECURSIVE ArrayKeys(_, _)
ArrayKeys(array, i) ==
    IF i \notin DOMAIN array THEN <<>>
    ELSE IF array[i] = None THEN ArrayKeys(array, i + 1)
    ELSE <<array[i][1]>> \o ArrayKeys(array, i + 1)

\* variant: the argument is ignored
DKT_keys_ignore_key(ot, key) == [exc |-> "none", val |-> ArrayKeys(ot.array, 0)]

\* iter_keys / keys: key = None lists the outer keys
DKT_keys(ot, key) ==
    IF key = None THEN [exc |-> "none", val |-> ArrayKeys(ot.array, 0)]
    ELSE LET g == LPT_getitem(ot, key)
         IN  IF g.exc # "none" THEN [exc |-> g.exc, val |-> <<>>]
             ELSE [exc |-> "none", val |-> ArrayKeys(g.val.array, 0)]

\* for item in table.array: if item is not None: yield item[1]
RECURSIVE ArrayValues(_, _)
ArrayValues(array, i) ==
    IF i \notin DOMAIN array THEN <<>>
    ELSE IF array[i] = None THEN ArrayValues(array, i + 1)
    ELSE <<array[i][2]>> \o ArrayValues(array, i + 1)

\* the values of every inner table, in outer slot order
RECURSIVE AllValues(_, _)
AllValues(array, i) ==
    IF i \notin DOMAIN array THEN <<>>
    ELSE IF array[i] = None THEN AllValues(array, i + 1)
    ELSE ArrayValues(array[i][2].array, 0) \o AllValues(array, i + 1)

\* variant: the argument is ignored
DKT_values_ignore_key(ot, key) ==
    [exc |-> "none", val |-> AllValues(ot.array, 0)]

\* iter_values / values
DKT_values(ot, key) ==
    IF key = None THEN [exc |-> "none", val |-> AllValues(ot.array, 0)]
    ELSE LET g == LPT_getitem(ot, key)
         IN  IF g.exc # "none" THEN [exc |-> g.exc, val |-> <<>>]
             ELSE [exc |-> "none", val |-> ArrayValues(g.val.array, 0)]

\* __len__
DKT_len(cnt) == cnt

(***************************************************************************)
(* InfiniteHashTable (src/infinite_hash_table.py)                          *)
(*                                                                         *)
(* A slot of a node's table is None, a leaf (the Python tuple (key,        *)
(* value)) or a child node.  All three are records with a kind field, so   *)
(* that isinstance and "is None" are tests on kind.                        *)
(***************************************************************************)
TABLE_SIZE == 27

TNone == [kind |-> "None"]
Leaf(key, value) == [kind |-> "leaf", key |-> key, value |-> value]

\* __init__
InfiniteHashTable(level) ==
    [kind |-> "table", level |-> level,
     table |-> [i \in 0..(TABLE_SIZE - 1) |-> TNone], count |-> 0]

\* hash
IHT_hash(self, key) ==
    IF self.level < Len(key)
    THEN key[self.level + 1] % (TABLE_SIZE - 1)
    ELSE TABLE_SIZE - 1

\* what Python returns from a function that falls off its end
PyNone == "None"

\* __getitem__: [exc, val]
RECURSIVE IHT_getitem(_, _)
IHT_getitem(self, key) ==
    LET pos == IHT_hash(self, key)
        item == self.table[pos]
    IN  IF item.kind = "None" THEN [exc |-> "KeyError", val |-> PyNone]
        ELSE IF item.kind = "table" THEN IHT_getitem(item, key)
        ELSE IF item.key = key THEN [exc |-> "none", val |-> item.value]
        ELSE [exc |-> "none", val |-> PyNone]

\* the hash of key in a node of the given level
HashAt(key, level) == IHT_hash([level |-> level], key)

\* two different keys that hash alike at every level from `level` on are
\* never separated: each new child node sees them collide again
NeverSeparated(key, conflict_key, level) ==
    LET deepest == IF Len(key) > Len(conflict_key) THEN Len(key)
                   ELSE Len(conflict_key)
    IN  \A l \in level..(IF deepest > level THEN deepest ELSE level) :
            HashAt(key, l) = HashAt(conflict_key, l)

\* __setitem__: [exc, t].  The recursion that never separates two keys ends
\* in Python's RecursionError.
RECURSIVE IHT_setitem(_, _, _)
IHT_setitem(self, key, value) ==
    LET pos == IHT_hash(self, key)
        item == self.table[pos]
    IN  IF item.kind = "None"
        THEN [exc |-> "none",
              t |-> [self EXCEPT !.table[pos] = Leaf(key, value),
                                 !.count = @ + 1]]
        ELSE IF item.kind = "table"
        THEN LET r == IHT_setitem(item, key, value)
             IN  IF r.exc # "none" THEN [exc |-> r.exc, t |-> self]
                 ELSE [exc |-> "none",
                       t |-> [self EXCEPT !.table[pos] = r.t,
                                          !.count = @ + 1]]
        ELSE IF item.key = key
        THEN [exc |-> "none",
              t |-> [self EXCEPT !.table[pos] = Leaf(key, value)]]
        ELSE IF NeverSeparated(key, item.key, self.level + 1)
        THEN [exc |-> "RecursionError", t |-> self]
        ELSE LET next_level_table ==
                     IHT_setitem(InfiniteHashTable(self.level + 1), key, value).t
                 r == IHT_setitem(next_level_table, item.key, item.value)
             IN  [exc |-> "none",
                  t |-> [self EXCEPT !.table[pos] = r.t, !.count = @ + 1]]

\* __len__
IHT_len(self) == self.count

OccupiedSlots(self) ==
    {i \in DOMAIN self.table : self.table[i].kind # "None"}

MinOf(S) == CHOOSE x \in S : \A y \in S : x <= y

\* __delitem__, lines 142-151: what the slot of a child node holds after a
\* key was deleted from the child
AfterChildDelete(item) ==
    IF IHT_len(item) = 0 THEN TNone
    ELSE IF IHT_len(item) = 1 /\ OccupiedSlots(item) # {}
    THEN item.table[MinOf(OccupiedSlots(item))]
    ELSE item

\* __delitem__: [exc, t]
RECURSIVE IHT_delitem(_, _)
IHT_delitem(self, key) ==
    LET pos == IHT_hash(self, key)
        item == self.table[pos]
    IN  IF item.kind = "None" THEN [exc |-> "KeyError", t |-> self]
        ELSE IF item.kind = "table"
        THEN LET r == IHT_delitem(item, key)
             IN  IF r.exc # "none" THEN [exc |-> r.exc, t |-> self]
                 ELSE [exc |-> "none",
                       t |-> [self EXCEPT !.table[pos] = AfterChildDelete(r.t),
                                          !.count = @ - 1]]
        ELSE IF item.key = key
        THEN [exc |-> "none",
              t |-> [self EXCEPT !.table[pos] = TNone, !.count = @ - 1]]
        ELSE [exc |-> "none", t |-> self]

\* get_location: [exc, val]
RECURSIVE IHT_get_location(_, _)
IHT_get_location(self, key) ==
    LET pos == IHT_hash(self, key)
        item == self.table[pos]
    IN  IF item.kind = "None" THEN [exc |-> "KeyError", val |-> <<>>]
        ELSE IF item.kind = "table"
        THEN LET r == IHT_get_location(item, key)
             IN  IF r.exc # "none" THEN r
                 ELSE [exc |-> "none", val |-> <<pos>> \o r.val]
        ELSE IF item.key = key THEN [exc |-> "none", val |-> <<pos>>]
        ELSE [exc |-> "KeyError", val |-> <<>>]

\* __contains__
IHT_contains(self, key) == IHT_getitem(self, key).exc # "KeyError"

\* sort_keys, lines 273-274: the terminal slot is emitted first.  Indexing
\* a child node found there with [0] is a TypeError.
SortTerminal(self, current) ==
    LET item == self.table[TABLE_SIZE - 1]
    IN  IF item.kind = "None" THEN [exc |-> "none", val |-> current]
        ELSE IF item.kind = "leaf"
        THEN [exc |-> "none", val |-> Append(current, item.key)]
        ELSE [exc |-> "TypeError", val |-> current]

\* sort_keys: [exc, val]; SortSlots is its loop from index i on
RECURSIVE IHT_sort_keys(_, _), SortSlots(_, _, _)
SortSlots(self, i, current) ==
    IF i = TABLE_SIZE THEN [exc |-> "none", val |-> current]
    ELSE LET pos == (i + 97) % TABLE_SIZE
             item == self.table[pos]
         IN  IF pos = TABLE_SIZE - 1 \/ item.kind = "None"
             THEN SortSlots(self, i + 1, current)
             ELSE IF item.kind = "table"
             THEN LET r == IHT_sort_keys(item, current)
                  IN  IF r.exc # "none" THEN r
                      ELSE SortSlots(self, i + 1, r.val)
             ELSE SortSlots(self, i + 1, Append(current, item.key))

IHT_sort_keys(self, current) ==
    LET r == SortTerminal(self, current)
    IN  IF r.exc # "none" THEN r ELSE SortSlots(self, 0, r.val)

(***************************************************************************)
(* Mountain (src/mountain.py), binary_search                               *)
(* (src/algorithms/binary_search.py) and MountainOrganiser                 *)
(* (src/mountain_organiser.py).  mergesort and merge                       *)
(* (algorithms/mergesort.py) are not part of the sources at hand; they are *)
(* modelled from what their callers say of them.                           *)
(***************************************************************************)
\* lexicographic order of two strings
RECURSIVE LexLess(_, _)
LexLess(p, q) ==
    IF q = <<>> THEN FALSE
    ELSE IF p = <<>> THEN TRUE
    ELSE IF Head(p) # Head(q) THEN Head(p) < Head(q)
    ELSE LexLess(Tail(p), Tail(q))

Mountain(name, difficulty_level, length) ==
    [name |-> name, difficulty_level |-> difficulty_level, length |-> length]

\* the tuple (difficulty_level, name) of one mountain below that of another
KeyLess(m, other) ==
    \/ m.difficulty_level < other.difficulty_level
    \/ /\ m.difficulty_level = other.difficulty_level
       /\ LexLess(m.name, other.name)

\* Mountain.__gt__, Mountain.__lt__, and the __eq__ of the dataclass, which
\* compares all three fields
Mountain_gt(self, other) == KeyLess(other, self)
Mountain_lt(self, other) == KeyLess(self, other)
Mountain_eq(self, other) == self = other

\* l[i] of a Python list: [exc, val]; a negative index counts from the end
ListIndex(l, i) ==
    IF i >= 0 /\ i < Len(l) THEN [exc |-> "none", val |-> l[i + 1]]
    ELSE IF i < 0 /\ i >= 0 - Len(l)
    THEN [exc |-> "none", val |-> l[Len(l) + i + 1]]
    ELSE [exc |-> "IndexError", val |-> None]

\* _binary_search_aux: [exc, val, calls].  calls is the set of <<lo, hi>> the
\* function was called with; a call with arguments it was called with
\* before recurs without end, which Python ends with RecursionError.
RECURSIVE binary_search_aux(_, _, _, _, _)
binary_search_aux(l, item, lo, hi, calls) ==
    LET here == calls \cup {<<lo, hi>>}
        mid == (hi + lo) \div 2
        at == ListIndex(l, mid)
    IN  IF <<lo, hi>> \in calls
        THEN [exc |-> "RecursionError", val |-> 0, calls |-> calls]
        ELSE IF lo = hi THEN [exc |-> "none", val |-> lo, calls |-> here]
        ELSE IF at.exc # "none"
        THEN [exc |-> at.exc, val |-> 0, calls |-> here]
        ELSE IF Mountain_gt(at.val, item)
        THEN binary_search_aux(l, item, lo, mid - 1, here)
        ELSE IF Mountain_lt(at.val, item)
        THEN binary_search_aux(l, item, mid + 1, hi, here)
        ELSE IF Mountain_eq(at.val, item)
        THEN [exc |-> "none", val |-> mid, calls |-> here]
        ELSE [exc |-> "ValueError", val |-> 0, calls |-> here]

\* binary_search
binary_search(l, item) == binary_search_aux(l, item, 0, Len(l), {})

\* MountainOrganiser.cur_position: [exc, val]
cur_position(org, mountain) ==
    LET mountain_rank == binary_search(org, mountain)
        at == ListIndex(org, mountain_rank.val)
    IN  IF mountain_rank.exc # "none"
        THEN [exc |-> mountain_rank.exc, val |-> 0]
        ELSE IF at.exc # "none" THEN [exc |-> at.exc, val |-> 0]
        ELSE IF at.val = mountain
        THEN [exc |-> "none", val |-> mountain_rank.val]
        ELSE [exc |-> "KeyError", val |-> 0]

\* the sequence is in ascending order of (difficulty_level, name)
SortedByKey(l) ==
    \A i, j \in DOMAIN l : i < j => ~KeyLess(l[j], l[i])

\* merge(l1, l2, key): the merges of two sorted lists; mountains with equal
\* keys may come out in either order
RECURSIVE merge(_, _)
merge(l1, l2) ==
    IF l1 = <<>> THEN {l2}
    ELSE IF l2 = <<>> THEN {l1}
    ELSE (IF KeyLess(Head(l2), Head(l1)) THEN {}
          ELSE {<<Head(l1)>> \o r : r \in merge(Tail(l1), l2)})
         \cup
         (IF KeyLess(Head(l1), Head(l2)) THEN {}
          ELSE {<<Head(l2)>> \o r : r \in merge(l1, Tail(l2))})

\* mergesort(l, key): the sorted arrangements of a list
RECURSIVE mergesort(_)
mergesort(l) ==
    IF Len(l) <= 1 THEN {l}
    ELSE LET mid == Len(l) \div 2
         IN  UNION {merge(a, b) : a \in mergesort(SubSeq(l, 1, mid)),
                                  b \in mergesort(SubSeq(l, mid + 1, Len(l)))}

\* MountainOrganiser.add_mountains: the lists org_mountains may become
add_mountains(org, mountains) ==
    UNION {merge(org, sorted_mountains) :
               sorted_mountains \in mergesort(mountains)}

\* ("a", 1, 10), ("a", 1, 20), ("b", 1, 10), ("a", 2, 10): the first two
\* differ in length only
Mountains ==
    {Mountain(<<97>>, 1, 10), Mountain(<<97>>, 1, 20),
     Mountain(<<98>>, 1, 10), Mountain(<<97>>, 2, 10)}

\* MountainOrganiser.__init__.  added and olast are history variables: how
\* often each mountain was added, and the last call with its outcome.
OrganiserStart ==
    /\ org_mountains = <<>>
    /\ added = [m \in Mountains |-> 0]
    /\ olast = [op |-> "init", exc |-> "none", val |-> 0]

NoResult == [exc |-> "none", val |-> 0, calls |-> {}]
SearchIdle == [l |-> <<>>, item |-> None, state |-> "idle", res |-> NoResult]

(***************************************************************************)
(* MountainManager (src/mountain_manager.py): a DoubleKeyTable keyed by    *)
(* difficulty_level and name.                                              *)
(***************************************************************************)
\* DoubleKeyTable.TABLE_SIZES, the capacities a table built without
\* arguments takes: the first two of them
TABLE_SIZES == <<5, 13>>

\* ("a", 1, 10), ("a", 1, 20), ("f", 1, 10), ("a", 6, 10): 1 and 6 hash to
\* the same slot of an outer table of 5 slots, "a" and "f" to the same slot
\* of an inner one
ManagerMountains ==
    {Mountain(<<97>>, 1, 10), Mountain(<<97>>, 1, 20),
     Mountain(<<102>>, 1, 10), Mountain(<<97>>, 6, 10)}

Difficulties == {m.difficulty_level : m \in ManagerMountains}
MountainKeys == {<<m.difficulty_level, m.name>> : m \in ManagerMountains}
NoMountain == [name |-> <<>>, difficulty_level |-> 0, length |-> 0]

\* MountainManager.__init__
MountainManager ==
    [outer_table |-> LinearProbeTable(TABLE_SIZES, "manager_hash1"),
     count |-> 0]

\* add_mountain: the tables it may leave, each as [exc, outer_table, count]
add_mountain(self, mountain) ==
    LET key1 == <<mountain.difficulty_level>>
        key2 == mountain.name
    IN  DKT_setitem(self.outer_table, self.count, TABLE_SIZES, key1, key2,
                    mountain)

\* remove_mountain: [exc, outer_table, count]
remove_mountain(self, mountain) ==
    LET key1 == <<mountain.difficulty_level>>
        key2 == mountain.name
    IN  DKT_delitem(self.outer_table, self.count, key1, key2)

\* edit_mountain: what remove_mountain raises ends the call
edit_mountain(self, old, new) ==
    LET r == remove_mountain(self, old)
    IN  IF r.exc # "none" THEN {r}
        ELSE add_mountain([outer_table |-> r.outer_table, count |-> r.count],
                          new)

\* variant: the values of the whole table are listed
mountains_with_difficulty_all(self, diff) ==
    DKT_values(self.outer_table, None)

\* mountains_with_difficulty: [exc, val]
mountains_with_difficulty(self, diff) ==
    IF <<diff>> \notin Range(DKT_keys(self.outer_table, None).val)
    THEN [exc |-> "none", val |-> <<>>]
    ELSE DKT_values(self.outer_table, <<diff>>)

\* held, latest and mlast are history variables: the mountains added and not
\* removed, the mountain last added under each (difficulty_level, name) and
\* not removed since, and the last call with its outcome
ManagerStart ==
    /\ mountain_manager = MountainManager
    /\ held = {}
    /\ latest = [k \in MountainKeys |-> NoMountain]
    /\ mlast = [op |-> "init", exc |-> "none"]

\* the state of everything but the two tables at construction
(***************************************************************************)
(* Trail (src/trail.py): a trail store is None, a TrailSeries or a         *)
(* TrailSplit; a Trail holds a store.                                      *)
(***************************************************************************)
NoStore == [kind |-> "None"]
TrailSeries(mountain, following) ==
    [kind |-> "TrailSeries", mountain |-> mountain, following |-> following]
TrailSplit(top, bottom, following) ==
    [kind |-> "TrailSplit", top |-> top, bottom |-> bottom,
     following |-> following]

\* data_structures.linked_stack.LinkedStack as follow_path uses it: the top
\* of the stack is the head of the sequence; pop of an empty stack raises
LinkedStack == <<>>
is_empty(stack) == stack = <<>>
push(stack, item) == <<item>> \o stack
pop(stack) ==
    IF is_empty(stack)
    THEN [exc |-> "Exception", item |-> NoStore, stack |-> stack]
    ELSE [exc |-> "none", item |-> Head(stack), stack |-> Tail(stack)]

\* PersonalityDecision, what select_branch returns
PersonalityDecision == {"TOP", "BOTTOM", "STOP"}

\* the state of one call of follow_path: the trail it was called on, its
\* locals current_store and stack, the mountains handed to
\* personality.add_mountain so far, the decisions select_branch returned so
\* far and where the call is ("idle", "walking", "returned", "raised")
follow_path(trail) ==
    [trail |-> trail, current_store |-> trail, stack |-> LinkedStack,
     walked |-> <<>>, decisions |-> <<>>, status |-> "walking"]

WalkIdle ==
    [trail |-> NoStore, current_store |-> NoStore, stack |-> LinkedStack,
     walked |-> <<>>, decisions |-> <<>>, status |-> "idle"]

\* lines 135-147: the TrailSeries part of one pass of the loop
SeriesPart(w) ==
    IF w.current_store.kind # "TrailSeries" THEN w
    ELSE LET added_m == Append(w.walked, w.current_store.mountain)
             next == w.current_store.following
         IN  IF next.kind # "None"
             THEN [w EXCEPT !.walked = added_m, !.current_store = next]
             ELSE IF is_empty(w.stack)
             THEN [w EXCEPT !.walked = added_m, !.current_store = next,
                            !.status = "returned"]
             ELSE LET p == pop(w.stack)
                  IN  [w EXCEPT !.walked = added_m, !.stack = p.stack,
                                !.current_store = p.item.following]

\* lines 149-162: the TrailSplit part of one pass of the loop
SplitPart(w, decision) ==
    IF w.status # "walking" \/ w.current_store.kind # "TrailSplit" THEN w
    ELSE LET split == w.current_store
             decided == [w EXCEPT !.stack = push(w.stack, split),
                                  !.decisions = Append(w.decisions, decision)]
         IN  CASE decision = "TOP" ->
                      [decided EXCEPT !.current_store = split.top]
               [] decision = "BOTTOM" ->
                      [decided EXCEPT !.current_store = split.bottom]
               [] decision = "STOP" ->
                      [decided EXCEPT !.status = "returned"]

\* lines 164-166: the last part of one pass of the loop
NonePart(w) ==
    IF w.status # "walking" \/ w.current_store.kind # "None" THEN w
    ELSE LET p == pop(w.stack)
         IN  IF p.exc # "none" THEN [w EXCEPT !.status = "raised"]
             ELSE [w EXCEPT !.stack = p.stack,
                            !.current_store = p.item.following]

\* lines 132-166: one pass of the loop of follow_path
LoopBody(w, decision) == NonePart(SplitPart(SeriesPart(w), decision))

M1 == Mountain(<<97>>, 1, 10)
M2 == Mountain(<<98>>, 2, 20)
TrailMountains == {M1, M2}

\* the trails built from shorter ones as TrailSeries and TrailSplit build
\* them
Grow(stores) ==
    {NoStore}
    \cup {TrailSeries(m, t) : m \in TrailMountains, t \in stores}
    \cup {TrailSplit(t, b, f) : t \in stores, b \in stores, f \in stores}

\* every trail of one or two levels, and trails of three levels where a
\* split lies in a branch of another and where a walk leaves two splits at
\* once
Trails ==
    Grow(Grow({NoStore}))
    \cup {TrailSplit(TrailSplit(TrailSeries(M1, NoStore), NoStore,
                                TrailSeries(M2, NoStore)),
                     TrailSeries(M2, NoStore),
                     TrailSeries(M1, NoStore)),
          TrailSplit(TrailSplit(TrailSeries(M1, NoStore), NoStore, NoStore),
                     TrailSeries(M2, NoStore),
                     TrailSeries(M2, TrailSeries(M1, NoStore))),
          TrailSplit(TrailSeries(M1, TrailSplit(NoStore, TrailSeries(M2, NoStore),
                                                NoStore)),
                     NoStore,
                     TrailSeries(M1, NoStore)),
          TrailSeries(M1, TrailSplit(TrailSeries(M2, NoStore), NoStore,
                                     TrailSplit(NoStore, NoStore,
                                                TrailSeries(M1, NoStore))))}

TrailStart == walk = WalkIdle

RestStart ==
    /\ OrganiserStart
    /\ search = SearchIdle
    /\ ManagerStart
    /\ TrailStart

(***************************************************************************)
(* State machine.  stored, last and trip are history variables: the pairs  *)
(* set and not deleted since, the last operation with its outcome, and     *)
(* the progress of a set / delete / set round trip on one pair.            *)
(***************************************************************************)
Pairs == Keys1 \X Keys2

\* the slots a probe for a stored key visits before it reaches the key
RECURSIVE PathFrom(_, _, _, _)
PathFrom(t, key, position, remaining) ==
    IF remaining = 0 \/ t.array[position] = None THEN {}
    ELSE IF t.array[position][1] = key THEN {}
    ELSE {position} \cup PathFrom(t, key, (position + 1) % table_size(t),
                                  remaining - 1)

ProbePath(t, key) == PathFrom(t, key, TableHash(t, key), table_size(t))

\* which probe chains run through the slot that deleting (key1, key2) frees
ChainThrough(ot, key1, key2) ==
    LET g == LPT_getitem(ot, key1)
        inner == g.val
        p2 == LPT_linear_probe(inner, key2, FALSE)
        p1 == LPT_linear_probe(ot, key1, FALSE)
    IN  IF g.exc # "none" THEN "none"
        ELSE IF p2.exc # "none" THEN "none"
        ELSE IF \E k \in Keys2 \ {key2} :
                    LPT_contains(inner, k) /\ p2.pos \in ProbePath(inner, k)
        THEN "inner"
        ELSE IF /\ LPT_len(inner) = 1
                /\ \E j \in Keys1 \ {key1} :
                       LPT_contains(ot, j) /\ p1.pos \in ProbePath(ot, j)
        THEN "outer"
        ELSE "none"

\* __init__
Init ==
    /\ sizes \in SizesChoices
    /\ internal_sizes \in InternalSizesChoices
    /\ outer_table = LinearProbeTable(sizes, "hash1")
    /\ count = 0
    /\ stored = [p \in Pairs |-> NoValue]
    /\ last = [op |-> "init", k1 |-> None, k2 |-> None, exc |-> "none",
               was |-> NoValue, chain |-> "none"]
    /\ trip = [stage |-> 0, len1 |-> 0]
    /\ trie = InfiniteHashTable(0)
    /\ tstored = [k \in TrieKeys |-> NoValue]
    /\ tlast = [op |-> "init", key |-> <<>>, exc |-> "none", was |-> NoValue]
    /\ RestStart

Set(key1, key2, data) ==
    \E r \in DKT_setitem(outer_table, count, internal_sizes, key1, key2, data) :
        /\ r.exc = "none" => r.count <= MaxCount
        /\ outer_table' = r.outer_table
        /\ count' = r.count
        /\ stored' = IF r.exc = "none"
                     THEN [stored EXCEPT ![<<key1, key2>>] = data]
                     ELSE stored
        /\ last' = [op |-> "set", k1 |-> key1, k2 |-> key2, exc |-> r.exc,
                    was |-> stored[<<key1, key2>>], chain |-> "none"]
        /\ trip' = IF r.exc # "none" THEN [stage |-> 0, len1 |-> 0]
                   ELSE IF /\ trip.stage = 2
                           /\ last.k1 = key1 /\ last.k2 = key2
                        THEN [trip EXCEPT !.stage = 3]
                        ELSE [stage |-> 1, len1 |-> DKT_len(r.count)]
        /\ UNCHANGED <<sizes, internal_sizes, trievars, restvars>>

Delete(key1, key2) ==
    LET r == DKT_delitem(outer_table, count, key1, key2)
    IN  /\ outer_table' = r.outer_table
        /\ count' = r.count
        /\ stored' = IF r.exc = "none"
                     THEN [stored EXCEPT ![<<key1, key2>>] = NoValue]
                     ELSE stored
        /\ last' = [op |-> "delete", k1 |-> key1, k2 |-> key2, exc |-> r.exc,
                    was |-> stored[<<key1, key2>>],
                    chain |-> ChainThrough(outer_table, key1, key2)]
        /\ trip' = IF /\ r.exc = "none" /\ trip.stage = 1
                      /\ last.k1 = key1 /\ last.k2 = key2
                   THEN [trip EXCEPT !.stage = 2]
                   ELSE [stage |-> 0, len1 |-> 0]
        /\ UNCHANGED <<sizes, internal_sizes, trievars, restvars>>

Next ==
    \/ \E key1 \in Keys1, key2 \in Keys2, data \in Values : Set(key1, key2, data)
    \/ \E key1 \in Keys1, key2 \in Keys2 : Delete(key1, key2)

Spec == Init /\ [][Next]_vars

\* the inner tables of a table that _linear_probe created
ProbeTables(ot) ==
    {i \in Occupied(ot) : ot.array[i][2].hash = "hash2_of_key2"}

\* a call of _linear_probe between the sets and deletes
LinearProbe(key1, key2, is_insert) ==
    \E r \in DKT_linear_probe(outer_table, count, internal_sizes, key1, key2,
                              is_insert) :
        /\ Cardinality(ProbeTables(r.outer_table)) <= MaxProbeTables
        /\ outer_table' = r.outer_table
        /\ count' = r.count
        /\ last' = [op |-> "_linear_probe", k1 |-> key1, k2 |-> key2,
                    exc |-> r.exc, was |-> stored[<<key1, key2>>],
                    chain |-> "none", is_insert |-> is_insert, pos |-> r.pos]
        /\ trip' = [stage |-> 0, len1 |-> 0]
        /\ UNCHANGED <<sizes, internal_sizes, stored, trievars, restvars>>

NextProbe ==
    \/ Next
    \/ \E key1 \in Keys1, key2 \in Keys2, is_insert \in BOOLEAN :
           LinearProbe(key1, key2, is_insert)

\* a table whose outer capacity can grow once
InitProbe == Init /\ sizes = <<2, 5>> /\ internal_sizes = <<2>>

SpecProbe == InitProbe /\ [][NextProbe]_vars

(***************************************************************************)
(* State machine of the trie.  tstored and tlast are history variables:    *)
(* the keys set and not deleted since, and the last operation with its     *)
(* outcome.  A set that ends in RecursionError ends the run.               *)
(***************************************************************************)
RECURSIVE NodeCounts(_)
NodeCounts(self) ==
    {self.count} \cup
    UNION {NodeCounts(self.table[i]) :
               i \in {j \in DOMAIN self.table : self.table[j].kind = "table"}}

WithinBounds(self) ==
    \A c \in NodeCounts(self) : c <= MaxTrieCount /\ c >= 0 - MaxTrieDeficit

InitTrie == Init /\ sizes = <<2>> /\ internal_sizes = <<2>>

TrieSet(key, value) ==
    LET r == IHT_setitem(trie, key, value)
    IN  /\ tlast.exc # "RecursionError"
        /\ WithinBounds(r.t)
        /\ trie' = r.t
        /\ tstored' = IF r.exc = "none" THEN [tstored EXCEPT ![key] = value]
                      ELSE tstored
        /\ tlast' = [op |-> "set", key |-> key, exc |-> r.exc,
                     was |-> tstored[key]]
        /\ UNCHANGED <<dktvars, restvars>>

TrieDelete(key) ==
    LET r == IHT_delitem(trie, key)
    IN  /\ tlast.exc # "RecursionError"
        /\ WithinBounds(r.t)
        /\ trie' = r.t
        /\ tstored' = IF r.exc = "none" THEN [tstored EXCEPT ![key] = NoValue]
                      ELSE tstored
        /\ tlast' = [op |-> "delete", key |-> key, exc |-> r.exc,
                     was |-> tstored[key]]
        /\ UNCHANGED <<dktvars, restvars>>

NextTrie ==
    \/ \E key \in TrieKeys, value \in Values : TrieSet(key, value)
    \/ \E key \in TrieKeys : TrieDelete(key)

SpecTrie == InitTrie /\ [][NextTrie]_vars

(***************************************************************************)
(* Properties                                                              *)
(***************************************************************************)
StoredPairs == {p \in Pairs : stored[p] # NoValue}
StoredUnder(key1) == {key2 \in Keys2 : stored[<<key1, key2>>] # NoValue}
StoredOuter == {key1 \in Keys1 : StoredUnder(key1) # {}}

\* what the arrays hold, read slot by slot
OuterKeySet == {outer_table.array[i][1] : i \in Occupied(outer_table)}
InnerTables(key1) ==
    {outer_table.array[i][2] : i \in {j \in Occupied(outer_table) :
                                         outer_table.array[j][1] = key1}}
InnerKeySet(key1) ==
    UNION {{t.array[j][1] : j \in Occupied(t)} : t \in InnerTables(key1)}
AllInnerTables == {outer_table.array[i][2] : i \in Occupied(outer_table)}

RECURSIVE SumCounts(_)
SumCounts(S) ==
    IF S = {} THEN 0
    ELSE LET t == CHOOSE x \in S : TRUE IN LPT_len(t) + SumCounts(S \ {t})

Get(key1, key2) == DKT_getitem(outer_table, key1, key2)

\* C1: get(k1,k2) returns the value of the most recent set(k1,k2,.) for
\* every pair that has been set and not deleted since, whatever other sets
\* and deletes (growth, discarded inner tables) happened in between.
C1_GetReturnsLastSet ==
    \A p \in Pairs :
        stored[p] # NoValue =>
            Get(p[1], p[2]) = [exc |-> "none", val |-> stored[p]]

\* a pair survives the delete of another pair that discarded an inner
\* table, in an outer table that has grown
C1_Witness ==
    /\ last.op = "delete" /\ last.exc = "none"
    /\ last.k1 \notin OuterKeySet
    /\ outer_table.size_index = 2
    /\ StoredPairs # {}

\* C2: len() equals the number of pairs currently stored, which is also
\* the sum of the sizes of all inner tables.
C2_LenIsNumberOfPairs ==
    /\ DKT_len(count) = Cardinality(StoredPairs)
    /\ DKT_len(count) = SumCounts(AllInnerTables)

\* C3: keys() contains k1 iff at least one pair (k1,.) is stored, and no
\* empty inner table is attached to the outer table.
C3_OuterKeyIffPair ==
    /\ \A key1 \in Keys1 :
           key1 \in Range(DKT_keys(outer_table, None).val)
               <=> StoredUnder(key1) # {}
    /\ \A t \in AllInnerTables : Occupied(t) # {} /\ LPT_len(t) > 0

\* the last pair under an outer key was deleted while another key stays
C3_Witness ==
    /\ last.op = "delete" /\ last.exc = "none"
    /\ last.k1 \notin Range(DKT_keys(outer_table, None).val)
    /\ StoredOuter # {}

\* C4: after set(k1,k2,v1); delete(k1,k2); set(k1,k2,v2), get(k1,k2) is v2
\* and len() is what it was right after the first set.
C4_RoundTrip ==
    trip.stage = 3 =>
        /\ Get(last.k1, last.k2) =
               [exc |-> "none", val |-> stored[<<last.k1, last.k2>>]]
        /\ DKT_len(count) = trip.len1

\* C5: a set on a stored pair overwrites the value and leaves len(),
\* keys() and keys(k1) unchanged; a set on a pair that is not stored
\* raises len() by exactly 1.
C5_SetFrame ==
    [][(last'.op = "set" /\ last'.exc = "none") =>
          LET key1 == last'.k1
              key2 == last'.k2
          IN  IF stored[<<key1, key2>>] # NoValue
              THEN /\ DKT_len(count') = DKT_len(count)
                   /\ DKT_keys(outer_table', None) = DKT_keys(outer_table, None)
                   /\ DKT_keys(outer_table', key1) = DKT_keys(outer_table, key1)
                   /\ DKT_getitem(outer_table', key1, key2) =
                          [exc |-> "none", val |-> stored'[<<key1, key2>>]]
              ELSE DKT_len(count') = DKT_len(count) + 1]_vars

\* a stored pair was overwritten with another value
C5_Witness ==
    /\ last.op = "set" /\ last.exc = "none"
    /\ last.was # NoValue
    /\ stored[<<last.k1, last.k2>>] # last.was

\* C6: get and delete raise KeyError exactly when k1 is not an outer key
\* or k2 is not in k1's inner table; contains is false in exactly these
\* cases; a failing delete changes nothing.
C6_KeyErrorExactlyWhenAbsent ==
    /\ [](\A key1 \in Keys1, key2 \in Keys2 :
             LET absent == ~(key1 \in OuterKeySet /\ key2 \in InnerKeySet(key1))
                 g == Get(key1, key2)
                 d == DKT_delitem(outer_table, count, key1, key2)
             IN  /\ g.exc = (IF absent THEN "KeyError" ELSE "none")
                 /\ d.exc = (IF absent THEN "KeyError" ELSE "none")
                 /\ DKT_contains(outer_table, key1, key2) <=> ~absent)
    /\ [][(last'.op = "delete" /\ last'.exc = "KeyError") =>
             /\ outer_table' = outer_table
             /\ count' = count
             /\ ~(last'.k1 \in OuterKeySet /\ last'.k2 \in InnerKeySet(last'.k1))
         ]_vars

\* a delete failed on an inner key missing from an existing inner table
C6_Witness ==
    /\ last.op = "delete" /\ last.exc = "KeyError"
    /\ last.k1 \in OuterKeySet
    /\ ~DKT_contains(outer_table, last.k1, last.k2)

\* C7: a set that fails with FullError leaves the table as it was: same
\* outer and inner tables (keys, values), same len().
C7_FullErrorChangesNothing ==
    [][(last'.op = "set" /\ last'.exc = "FullError") =>
          /\ outer_table' = outer_table
          /\ DKT_len(count') = DKT_len(count)
          /\ DKT_keys(outer_table', None) = DKT_keys(outer_table, None)
          /\ DKT_values(outer_table', None) = DKT_values(outer_table, None)
      ]_vars

\* a set of a new outer key failed on a full outer table
C7_Witness ==
    /\ last.op = "set" /\ last.exc = "FullError"
    /\ last.k1 \notin OuterKeySet
    /\ OuterKeySet # {}

\* C8: once the outer table or an inner table has grown, every stored pair
\* is still returned by get and listed by keys() and values().
C8_ResizeTransparent ==
    \A p \in StoredPairs :
        (\/ outer_table.size_index > 1
         \/ \E t \in InnerTables(p[1]) : t.size_index > 1) =>
            /\ Get(p[1], p[2]) = [exc |-> "none", val |-> stored[p]]
            /\ p[1] \in Range(DKT_keys(outer_table, None).val)
            /\ p[2] \in Range(DKT_keys(outer_table, p[1]).val)
            /\ stored[p] \in Range(DKT_values(outer_table, p[1]).val)
            /\ stored[p] \in Range(DKT_values(outer_table, None).val)

\* the set of a second outer key has just grown the outer table
C8_Witness ==
    /\ last.op = "set" /\ last.exc = "none" /\ last.was = NoValue
    /\ outer_table.size_index = 2
    /\ LPT_len(outer_table) = 2
    /\ Cardinality(StoredUnder(last.k1)) = 1
    /\ Cardinality(StoredPairs) = 2

\* C9: after a delete, every other key whose probe sequence passed through
\* the freed slot (of the inner table, or of the outer table when the inner
\* table is discarded) is still found by get.
C9_DeleteKeepsProbeChains ==
    [][(last'.op = "delete" /\ last'.exc = "none") =>
          LET key1 == last'.k1
              key2 == last'.k2
              inner == LPT_getitem(outer_table, key1).val
              freed2 == LPT_linear_probe(inner, key2, FALSE).pos
              freed1 == LPT_linear_probe(outer_table, key1, FALSE).pos
          IN  /\ \A k \in StoredUnder(key1) \ {key2} :
                     freed2 \in ProbePath(inner, k) =>
                         DKT_getitem(outer_table', key1, k) =
                             [exc |-> "none", val |-> stored[<<key1, k>>]]
              /\ LPT_len(inner) = 1 =>
                     \A j \in StoredOuter \ {key1} :
                         freed1 \in ProbePath(outer_table, j) =>
                             \A k \in StoredUnder(j) :
                                 DKT_getitem(outer_table', j, k) =
                                     [exc |-> "none", val |-> stored[<<j, k>>]]
      ]_vars

\* a key was deleted from an inner table in which another key had been
\* probed past its slot
C9_Witness ==
    /\ last.op = "delete" /\ last.exc = "none"
    /\ last.chain = "inner"

\* the same for the outer table: an inner table was discarded from a slot
\* that another outer key had been probed past
C9_WitnessOuter ==
    /\ last.op = "delete" /\ last.exc = "none"
    /\ last.chain = "outer"

\* C10: keys() returns exactly the outer keys with a stored pair, each
\* once; keys(k1) returns exactly the inner keys stored under k1, each
\* once, and raises KeyError when k1 is not an outer key.
C10_KeysExact ==
    LET ks == DKT_keys(outer_table, None)
    IN  /\ ks.exc = "none"
        /\ Range(ks.val) = StoredOuter
        /\ Len(ks.val) = Cardinality(StoredOuter)
        /\ \A key1 \in Keys1 :
               LET ks1 == DKT_keys(outer_table, key1)
               IN  IF key1 \in OuterKeySet
                   THEN /\ ks1.exc = "none"
                        /\ Range(ks1.val) = StoredUnder(key1)
                        /\ Len(ks1.val) = Cardinality(StoredUnder(key1))
                   ELSE ks1.exc = "KeyError"

\* one outer key holds two inner keys and another outer key is absent
C10_Witness ==
    /\ \E key1 \in Keys1 : Len(DKT_keys(outer_table, key1).val) = 2
    /\ \E key1 \in Keys1 : DKT_keys(outer_table, key1).exc = "KeyError"

\* the values the stored pairs under key1 have, in the order keys(key1)
\* lists the inner keys (inner slot order)
ValuesUnder(key1) ==
    LET ks == DKT_keys(outer_table, key1).val
    IN  [i \in 1..Len(ks) |-> stored[<<key1, ks[i]>>]]

\* the concatenation of ValuesUnder over a sequence of outer keys
RECURSIVE ConcatValuesUnder(_)
ConcatValuesUnder(ks) ==
    IF ks = <<>> THEN <<>>
    ELSE ValuesUnder(Head(ks)) \o ConcatValuesUnder(Tail(ks))

\* C11: values() returns the values of all stored pairs, one entry per
\* pair, as the concatenation of each inner table's values in outer slot
\* order and then inner slot order; values(k1) returns exactly the values
\* of the pairs stored under k1 and nothing from another outer key.
C11_ValuesExact ==
    LET vs == DKT_values(outer_table, None)
    IN  /\ vs.exc = "none"
        /\ Len(vs.val) = Cardinality(StoredPairs)
        /\ vs.val = ConcatValuesUnder(DKT_keys(outer_table, None).val)
        /\ \A key1 \in StoredOuter :
               LET vs1 == DKT_values(outer_table, key1)
               IN  /\ vs1.exc = "none"
                   /\ Len(vs1.val) = Cardinality(StoredUnder(key1))
                   /\ vs1.val = ValuesUnder(key1)

\* two outer keys hold pairs with different values, and values(k1) lists
\* fewer values than values()
C11_Witness ==
    /\ DKT_values(outer_table, None).val \in {<<"v1", "v2">>, <<"v2", "v1">>}
    /\ \E key1 \in Keys1 : DKT_values(outer_table, key1).val = <<"v2">>
    /\ \E key1 \in Keys1 : DKT_values(outer_table, key1).val = <<"v1">>

\* The same trie over keys with characters outside a-z: "a", "G", "Ga",
\* "b".  ord('G') = 71 and ord('a') = 97 are both 19 modulo 26.
AnyKeys == {<<97>>, <<71>>, <<71, 97>>, <<98>>}

InitTrieAny ==
    /\ sizes = <<2>>
    /\ internal_sizes = <<2>>
    /\ outer_table = LinearProbeTable(sizes, "hash1")
    /\ count = 0
    /\ stored = [p \in Pairs |-> NoValue]
    /\ last = [op |-> "init", k1 |-> None, k2 |-> None, exc |-> "none",
               was |-> NoValue, chain |-> "none"]
    /\ trip = [stage |-> 0, len1 |-> 0]
    /\ trie = InfiniteHashTable(0)
    /\ tstored = [k \in AnyKeys |-> NoValue]
    /\ tlast = [op |-> "init", key |-> <<>>, exc |-> "none", was |-> NoValue]
    /\ RestStart

NextTrieAny ==
    \/ \E key \in AnyKeys, value \in Values : TrieSet(key, value)
    \/ \E key \in AnyKeys : TrieDelete(key)

SpecTrieAny == InitTrieAny /\ [][NextTrieAny]_vars

(***************************************************************************)
(* Properties of the trie                                                  *)
(***************************************************************************)
TrieStored == {k \in TrieKeys : tstored[k] # NoValue}

\* C12: after any sequence of set and delete operations, get(k) returns the
\* value of the most recent set(k, .) for every key set and not deleted
\* since, whatever depth its leaf was pushed to or collapsed from.
C12_GetReturnsLastSet ==
    \A k \in TrieStored :
        IHT_getitem(trie, k) = [exc |-> "none", val |-> tstored[k]]

\* the child nodes beneath a node, and the node with them
RECURSIVE ChildNodes(_)
ChildNodes(self) ==
    UNION {{self.table[i]} \cup ChildNodes(self.table[i]) :
               i \in {j \in DOMAIN self.table : self.table[j].kind = "table"}}

AllNodes == {trie} \cup ChildNodes(trie)

\* the keys of the leaves reachable beneath a node
RECURSIVE LeafKeys(_)
LeafKeys(self) ==
    {self.table[i].key :
         i \in {j \in DOMAIN self.table : self.table[j].kind = "leaf"}}
    \cup UNION {LeafKeys(self.table[i]) :
                    i \in {j \in DOMAIN self.table : self.table[j].kind = "table"}}

\* C13: after any sequence of set (new keys and keys already stored, at any
\* depth) and delete, the count of every node, and so len() of the root,
\* equals the number of leaves reachable beneath that node.
C13_CountIsLeaves ==
    \A n \in AllNodes : IHT_len(n) = Cardinality(LeafKeys(n))

\* C14: delete(key) raises KeyError for every key that is not stored (empty
\* slot, leaf with a different key, key absent from the child node in the
\* slot), and a failing delete changes no slot and no count at any level.
C14_DeleteAbsentRaises ==
    [][(tlast'.op = "delete" /\ tstored[tlast'.key] = NoValue)
           => (tlast'.exc = "KeyError" /\ trie' = trie)]_vars

\* C15: after any sequence of set and delete, every child node holds at
\* least two leaves beneath it: a child left with one leaf by a delete is
\* replaced by that leaf in its parent's slot, a child left with none is
\* cleared.
C15_ChildHoldsTwoLeaves ==
    \A n \in ChildNodes(trie) : Cardinality(LeafKeys(n)) >= 2

\* C16: sort_keys() returns the stored keys in lexicographic order, for
\* every set of stored keys over a-z and every insertion order.
C16_SortKeysLexicographic ==
    LET r == IHT_sort_keys(trie, <<>>)
    IN  /\ r.exc = "none"
        /\ Range(r.val) = TrieStored
        /\ \A i, j \in DOMAIN r.val : i < j => LexLess(r.val[i], r.val[j])

\* p is a proper prefix of q
ProperPrefix(p, q) == Len(p) < Len(q) /\ SubSeq(q, 1, Len(p)) = p

\* the positions at which a sequence holds x
IndexOf(seq, x) == {i \in DOMAIN seq : seq[i] = x}

\* C17: for any two stored keys p and q where p is a proper prefix of q
\* (the empty string included), sort_keys() lists p before q.
C17_PrefixFirst ==
    LET r == IHT_sort_keys(trie, <<>>)
    IN  /\ r.exc = "none"
        /\ \A p, q \in TrieStored :
               ProperPrefix(p, q) =>
                   \E i \in IndexOf(r.val, p) :
                       \E j \in IndexOf(r.val, q) : i < j

\* the order alone: of the keys that sort_keys() lists, a proper prefix
\* comes before the longer key
PrefixFirstAmongListed ==
    LET r == IHT_sort_keys(trie, <<>>)
    IN  /\ r.exc = "none"
        /\ \A p, q \in Range(r.val) :
               ProperPrefix(p, q) =>
                   \A i \in IndexOf(r.val, p) :
                       \A j \in IndexOf(r.val, q) : i < j

\* C18: get_location(key) fails with KeyError under exactly the same
\* conditions as get(key): for every reachable table and every key, both
\* raise KeyError or neither does.
C18_LocationFailsAsGet ==
    \A key \in TrieKeys :
        (IHT_get_location(trie, key).exc = "KeyError")
            <=> (IHT_getitem(trie, key).exc = "KeyError")

\* the slot a sequence of positions leads to, from a node down
RECURSIVE SlotAt(_, _)
SlotAt(self, location) ==
    IF Len(location) = 1 THEN self.table[location[1]]
    ELSE SlotAt(self.table[location[1]], Tail(location))

\* C19: for every stored key, get_location(key) is [h_0, .., h_d] with h_i
\* the hash of the key at level i; the slots h_0 .. h_(d-1) hold child nodes
\* along the path and slot h_d of the last node holds the key's leaf; two
\* stored keys that collide at levels 0 .. L-1 and differ at level L both
\* have a location of length at least L + 1.
C19_LocationIsHashPath ==
    /\ \A k \in TrieStored :
           LET r == IHT_get_location(trie, k)
           IN  /\ r.exc = "none"
               /\ \A i \in DOMAIN r.val : r.val[i] = HashAt(k, i - 1)
               /\ \A i \in 1..(Len(r.val) - 1) :
                      SlotAt(trie, SubSeq(r.val, 1, i)).kind = "table"
               /\ SlotAt(trie, r.val).kind = "leaf"
               /\ SlotAt(trie, r.val).key = k
    /\ \A p, q \in TrieStored : \A L \in 0..(Len(p) + Len(q)) :
           (/\ \A l \in 0..(L - 1) : HashAt(p, l) = HashAt(q, l)
            /\ HashAt(p, L) # HashAt(q, L))
               => /\ Len(IHT_get_location(trie, p).val) >= L + 1
                  /\ Len(IHT_get_location(trie, q).val) >= L + 1

\* the counts of the nodes on the path to a key, from the root down
RECURSIVE PathCounts(_, _)
PathCounts(self, key) ==
    LET item == self.table[IHT_hash(self, key)]
    IN  IF item.kind = "table" THEN <<self.count>> \o PathCounts(item, key)
        ELSE <<self.count>>

\* C20: set(key, v2) on a key already stored, its leaf in the root or in a
\* child node at any depth, only replaces the value: len() of the root, the
\* count of every node on the path, get_location of every key and the
\* values of all other keys are unchanged.
C20_UpdateReplacesValueOnly ==
    [][(tlast'.op = "set" /\ tstored[tlast'.key] # NoValue)
           => /\ IHT_getitem(trie', tlast'.key).val = tstored'[tlast'.key]
              /\ IHT_len(trie') = IHT_len(trie)
              /\ PathCounts(trie', tlast'.key) = PathCounts(trie, tlast'.key)
              /\ \A k \in TrieKeys :
                     IHT_get_location(trie', k) = IHT_get_location(trie, k)
              /\ \A k \in TrieKeys \ {tlast'.key} :
                     IHT_getitem(trie', k) = IHT_getitem(trie, k)]_vars

\* the number of leaves beneath a node, each slot counted
RECURSIVE LeafCount(_)
LeafCount(self) ==
    LET slots == DOMAIN self.table
        SumFrom[i \in 0..TABLE_SIZE] ==
            IF i \notin slots THEN 0
            ELSE (IF self.table[i].kind = "leaf" THEN 1
                  ELSE IF self.table[i].kind = "table"
                       THEN LeafCount(self.table[i])
                       ELSE 0) + SumFrom[i + 1]
    IN  SumFrom[0]

\* every leaf of a node sits in the slot its key hashes to at the node's
\* level, every child is one level deeper and holds keys that hash to the
\* child's slot, and so on beneath
RECURSIVE WellPlaced(_)
WellPlaced(self) ==
    \A s \in DOMAIN self.table :
        LET item == self.table[s]
        IN  /\ item.kind = "leaf" => IHT_hash(self, item.key) = s
            /\ item.kind = "table" =>
                   /\ item.level = self.level + 1
                   /\ \A k \in LeafKeys(item) : HashAt(k, self.level) = s
                   /\ WellPlaced(item)

\* C21: in every reachable state every leaf (k, v) in slot s of a level-L
\* node has hash of k at level L equal to s, every key beneath a child node
\* in slot s of a level-L node hashes to s at level L, each child node's
\* level is its parent's level + 1, and no key is stored in two leaves.
C21_PlacementInvariant ==
    /\ WellPlaced(trie)
    /\ LeafCount(trie) = Cardinality(LeafKeys(trie))

\* C27: contains(key) is true if and only if key has been set and not
\* deleted since; for a key that is not stored but hashes to a slot holding
\* the leaf of a different key it is false, and get on such a key raises
\* KeyError rather than returning a value.
C27_ContainsIffStored ==
    \A key \in TrieKeys :
        /\ IHT_contains(trie, key) <=> key \in TrieStored
        /\ key \notin TrieStored => IHT_getitem(trie, key).exc = "KeyError"

\* the trie that lazy splitting and collapsing yield for a key-to-value
\* mapping: in a node of level `level` holding the keys ks, a slot that one
\* key hashes to holds its leaf, a slot that several keys hash to holds the
\* child node of those keys, and the count is the number of keys
RECURSIVE StructureOf(_, _, _)
StructureOf(mapping, ks, level) ==
    LET at(s) == {k \in ks : HashAt(k, level) = s}
    IN  [kind |-> "table", level |-> level,
         table |-> [s \in 0..(TABLE_SIZE - 1) |->
                        IF at(s) = {} THEN TNone
                        ELSE IF Cardinality(at(s)) = 1
                        THEN LET k == CHOOSE x \in at(s) : TRUE
                             IN  Leaf(k, mapping[k])
                        ELSE StructureOf(mapping, at(s), level + 1)],
         count |-> Cardinality(ks)]

\* C28: the structure of the trie (which slot of which node is empty, a
\* leaf or a child, and each node's count) is determined by the stored
\* key-to-value mapping alone: every sequence of sets and deletes (updates
\* of stored keys included) that ends with the same mapping yields the same
\* structure and the same get_location for every key.
C28_StructureFromMapping ==
    trie = StructureOf(tstored, TrieStored, 0)

\* what is listed, whoever set it: sort_keys() lists the key of every leaf
\* the trie holds exactly once and nothing else
SortKeysListsLeaves ==
    LET r == IHT_sort_keys(trie, <<>>)
    IN  /\ r.exc = "none"
        /\ Range(r.val) = LeafKeys(trie)
        /\ Len(r.val) = LeafCount(trie)

\* C30: sort_keys() returns a list that contains every stored key exactly
\* once and nothing else (its length is the number of stored keys), leaves
\* the table unchanged, and returns the same list when called again.
C30_SortKeysExact ==
    LET r == IHT_sort_keys(trie, <<>>)
    IN  /\ r.exc = "none"
        /\ Range(r.val) = TrieStored
        /\ Len(r.val) = Cardinality(TrieStored)

\* the child nodes beneath a node, each as <<location, level>>
RECURSIVE NodesAt(_, _)
NodesAt(self, location) ==
    UNION {{<<Append(location, i), self.table[i].level>>}
               \cup NodesAt(self.table[i], Append(location, i)) :
               i \in {j \in DOMAIN self.table : self.table[j].kind = "table"}}

\* the length of the longest key a mapping stores
LongestKey(mapping) ==
    LET lens == {Len(k) : k \in {x \in DOMAIN mapping : mapping[x] # NoValue}}
    IN  IF lens = {} THEN 0 ELSE CHOOSE l \in lens : \A m \in lens : m <= l

\* C29: set(key, value) terminates for every string key, over any
\* characters, and every reachable table; the level of a node it creates
\* never exceeds the length of the longest stored key: two distinct keys
\* never force an unbounded chain of child nodes.
C29_SetTerminates ==
    [][tlast'.op = "set"
           => /\ tlast'.exc # "RecursionError"
              /\ \A n \in NodesAt(trie', <<>>) \ NodesAt(trie, <<>>) :
                     n[2] <= LongestKey(tstored')]_vars

(***************************************************************************)
(* State machine of the organiser                                          *)
(***************************************************************************)
\* the lists of at most n elements of S
ListsOf(S, n) == UNION {[1..k -> S] : k \in 0..n}

RECURSIVE SumOver(_, _)
SumOver(S, f) ==
    IF S = {} THEN 0
    ELSE LET x == CHOOSE y \in S : TRUE IN f[x] + SumOver(S \ {x}, f)

\* how often each mountain occurs in a list
Occurrences(l) ==
    [m \in Mountains |-> Cardinality({i \in DOMAIN l : l[i] = m})]

AddMountains(mountains) ==
    /\ Len(org_mountains) + Len(mountains) <= MaxMountains
    /\ org_mountains' \in add_mountains(org_mountains, mountains)
    /\ added' = [m \in Mountains |-> added[m] + Occurrences(mountains)[m]]
    /\ olast' = [op |-> "add_mountains", exc |-> "none", val |-> 0]
    /\ UNCHANGED <<dktvars, trievars, search, mgrvars, trailvars>>

CurPosition(mountain) ==
    LET r == cur_position(org_mountains, mountain)
    IN  /\ olast' = [op |-> "cur_position", exc |-> r.exc, val |-> r.val]
        /\ UNCHANGED <<dktvars, trievars, org_mountains, added, search, mgrvars,
                       trailvars>>

NextOrganiser ==
    \/ \E mountains \in ListsOf(Mountains, MaxAdded) : AddMountains(mountains)
    \/ \E mountain \in Mountains : CurPosition(mountain)

InitOrganiser == Init /\ sizes = <<2>> /\ internal_sizes = <<2>>

SpecOrganiser == InitOrganiser /\ [][NextOrganiser]_vars

(***************************************************************************)
(* binary_search on its own: the initial states draw a sorted list and an  *)
(* item, the one action applies the function.                              *)
(***************************************************************************)
\* mountains with pairwise different (difficulty_level, name)
SearchItems == {m \in Mountains : m.length = 10}

InitSearch ==
    /\ sizes = <<2>>
    /\ internal_sizes = <<2>>
    /\ outer_table = LinearProbeTable(sizes, "hash1")
    /\ count = 0
    /\ stored = [p \in Pairs |-> NoValue]
    /\ last = [op |-> "init", k1 |-> None, k2 |-> None, exc |-> "none",
               was |-> NoValue, chain |-> "none"]
    /\ trip = [stage |-> 0, len1 |-> 0]
    /\ trie = InfiniteHashTable(0)
    /\ tstored = [k \in TrieKeys |-> NoValue]
    /\ tlast = [op |-> "init", key |-> <<>>, exc |-> "none", was |-> NoValue]
    /\ OrganiserStart
    /\ ManagerStart
    /\ TrailStart
    /\ \E l \in {x \in ListsOf(SearchItems, MaxSearchLen) : SortedByKey(x)} :
           \E item \in SearchItems :
               search = [l |-> l, item |-> item, state |-> "pending",
                         res |-> NoResult]

Search ==
    /\ search.state = "pending"
    /\ search' = [search EXCEPT !.state = "done",
                                !.res = binary_search(search.l, search.item)]
    /\ UNCHANGED <<dktvars, trievars, orgvars, mgrvars, trailvars>>

NextSearch == Search

SpecSearch == InitSearch /\ [][NextSearch]_vars

(***************************************************************************)
(* Properties of the organiser and of binary_search                        *)
(***************************************************************************)
AddedMountains == {m \in Mountains : added[m] > 0}

\* how many added mountains come before m, and how many do not come after
\* it, in the order of (difficulty_level, name)
AddedBefore(m) == SumOver({x \in Mountains : KeyLess(x, m)}, added)
AddedUpTo(m) == SumOver({x \in Mountains : ~KeyLess(m, x)}, added)

\* C22: after any sequence of add_mountains calls, cur_position(m) returns,
\* for every mountain m that was added, the 0-based index of m in the list
\* of all added mountains sorted by difficulty_level and then by name.
C22_CurPositionIsRank ==
    \A m \in AddedMountains :
        LET r == cur_position(org_mountains, m)
        IN  /\ r.exc = "none"
            /\ r.val >= AddedBefore(m)
            /\ r.val < AddedUpTo(m)
            /\ org_mountains[r.val + 1] = m

\* the same for the mountains whose (difficulty_level, name) no other added
\* mountain shares
RankOfUnsharedKey ==
    \A m \in AddedMountains :
        (\A x \in AddedMountains \ {m} : KeyLess(x, m) \/ KeyLess(m, x))
            => LET r == cur_position(org_mountains, m)
               IN  /\ r.exc = "none"
                   /\ r.val >= AddedBefore(m)
                   /\ r.val < AddedUpTo(m)
                   /\ org_mountains[r.val + 1] = m

\* C23: cur_position(m) raises KeyError for every mountain m that was never
\* added, whatever the list is (empty, m below every stored mountain, above
\* every one, or between two); no other error is raised and the call ends.
C23_KeyErrorForAbsent ==
    \A m \in Mountains \ AddedMountains :
        cur_position(org_mountains, m).exc = "KeyError"

\* l with item inserted before the 0-based position i
InsertAt(l, i, item) ==
    SubSeq(l, 1, i) \o <<item>> \o SubSeq(l, i + 1, Len(l))

\* C24: binary_search(l, item) terminates for every sorted list l and every
\* item and returns an index i with 0 <= i <= len(l) such that l[i] = item
\* when item is in l, and otherwise inserting item at position i keeps l
\* sorted; every recursive call keeps 0 <= lo <= hi <= len(l).
C24_BinarySearchIndex ==
    search.state = "done" =>
        LET r == search.res
            l == search.l
        IN  /\ r.exc = "none"
            /\ r.val >= 0 /\ r.val <= Len(l)
            /\ search.item \in Range(l) => l[r.val + 1] = search.item
            /\ search.item \notin Range(l) =>
                   SortedByKey(InsertAt(l, r.val, search.item))
            /\ \A c \in r.calls :
                   0 <= c[1] /\ c[1] <= c[2] /\ c[2] <= Len(l)

(***************************************************************************)
(* State machine of the manager                                            *)
(***************************************************************************)
KeyOf(mountain) == <<mountain.difficulty_level, mountain.name>>

AddMountain(mountain) ==
    \E r \in add_mountain(mountain_manager, mountain) :
        /\ r.count <= MaxManagerCount
        /\ mountain_manager' = [outer_table |-> r.outer_table,
                                count |-> r.count]
        /\ held' = IF r.exc = "none" THEN held \cup {mountain} ELSE held
        /\ latest' = IF r.exc = "none"
                     THEN [latest EXCEPT ![KeyOf(mountain)] = mountain]
                     ELSE latest
        /\ mlast' = [op |-> "add_mountain", exc |-> r.exc]
        /\ UNCHANGED <<dktvars, trievars, orgvars, search, trailvars>>

RemoveMountain(mountain) ==
    LET r == remove_mountain(mountain_manager, mountain)
    IN  /\ mountain_manager' = [outer_table |-> r.outer_table,
                                count |-> r.count]
        /\ held' = IF r.exc = "none" THEN held \ {mountain} ELSE held
        /\ latest' = IF r.exc = "none"
                     THEN [latest EXCEPT ![KeyOf(mountain)] = NoMountain]
                     ELSE latest
        /\ mlast' = [op |-> "remove_mountain", exc |-> r.exc]
        /\ UNCHANGED <<dktvars, trievars, orgvars, search, trailvars>>

EditMountain(old, new) ==
    \E r \in edit_mountain(mountain_manager, old, new) :
        /\ r.count <= MaxManagerCount
        /\ mountain_manager' = [outer_table |-> r.outer_table,
                                count |-> r.count]
        /\ held' = IF r.exc = "none" THEN (held \ {old}) \cup {new} ELSE held
        /\ latest' = IF r.exc = "none"
                     THEN [latest EXCEPT ![KeyOf(old)] = NoMountain,
                                         ![KeyOf(new)] = new]
                     ELSE latest
        /\ mlast' = [op |-> "edit_mountain", exc |-> r.exc]
        /\ UNCHANGED <<dktvars, trievars, orgvars, search, trailvars>>

NextManager ==
    \/ \E mountain \in ManagerMountains : AddMountain(mountain)
    \/ \E mountain \in ManagerMountains : RemoveMountain(mountain)
    \/ \E old, new \in ManagerMountains : EditMountain(old, new)

InitManager == Init /\ sizes = <<2>> /\ internal_sizes = <<2>>

SpecManager == InitManager /\ [][NextManager]_vars

(***************************************************************************)
(* Properties of the manager                                               *)
(***************************************************************************)
\* C25: after any sequence of add_mountain, remove_mountain and
\* edit_mountain calls, mountains_with_difficulty(d) returns exactly the
\* mountains currently held (added and not removed) whose difficulty_level
\* is d, each once, and the empty list when there is none, without raising.
C25_WithDifficultyIsHeld ==
    \A d \in Difficulties :
        LET r == mountains_with_difficulty(mountain_manager, d)
            of_d == {m \in held : m.difficulty_level = d}
        IN  /\ r.exc = "none"
            /\ Range(r.val) = of_d
            /\ Len(r.val) = Cardinality(of_d)

\* C25, amended: after any sequence of add_mountain, remove_mountain and
\* edit_mountain calls, mountains_with_difficulty(d) returns, each once and
\* without raising, exactly the mountains that are, for some name, the one
\* last added under (d, name) and not removed under (d, name) since, and the
\* empty list when there is none.
C25_WithDifficultyIsLatest ==
    \A d \in Difficulties \cup {0} :
        LET r == mountains_with_difficulty(mountain_manager, d)
            of_d == {latest[k] : k \in {x \in MountainKeys :
                                           x[1] = d /\ latest[x] # NoMountain}}
        IN  /\ r.exc = "none"
            /\ Range(r.val) = of_d
            /\ Len(r.val) = Cardinality(of_d)

\* two mountains of one difficulty are held after one of the same
\* difficulty, name and other length was replaced, and none of another
\* difficulty is
C25_Witness ==
    /\ Len(mountains_with_difficulty(mountain_manager, 1).val) = 2
    /\ mountains_with_difficulty(mountain_manager, 6).val = <<>>
    /\ Cardinality({m \in held : m.difficulty_level = 1}) = 3

(***************************************************************************)
(* State machine of follow_path: a call on one of the trails, then one     *)
(* step for each pass of its loop, select_branch answering anything.       *)
(***************************************************************************)
InitTrail ==
    /\ sizes = <<2>>
    /\ internal_sizes = <<2>>
    /\ outer_table = LinearProbeTable(sizes, "hash1")
    /\ count = 0
    /\ stored = [p \in Pairs |-> NoValue]
    /\ last = [op |-> "init", k1 |-> None, k2 |-> None, exc |-> "none",
               was |-> NoValue, chain |-> "none"]
    /\ trip = [stage |-> 0, len1 |-> 0]
    /\ trie = InfiniteHashTable(0)
    /\ tstored = [k \in TrieKeys |-> NoValue]
    /\ tlast = [op |-> "init", key |-> <<>>, exc |-> "none", was |-> NoValue]
    /\ OrganiserStart
    /\ search = SearchIdle
    /\ ManagerStart
    /\ \E trail \in Trails : walk = follow_path(trail)

Iterate ==
    /\ walk.status = "walking"
    /\ \E decision \in PersonalityDecision :
           walk' = LoopBody(walk, decision)
    /\ UNCHANGED <<dktvars, trievars, orgvars, search, mgrvars>>

NextTrail == Iterate

SpecTrail == InitTrail /\ [][NextTrail]_vars

\* the passes of the loop are taken one after the other
FairSpecTrail == SpecTrail /\ WF_vars(NextTrail)

(***************************************************************************)
(* Properties of follow_path                                               *)
(***************************************************************************)
\* the mountains on the path that the decisions select through a trail:
\* [walked, decisions, stopped], the decisions being those not yet used;
\* the walk stops at a STOP and at a split for which no decision is left
RECURSIVE SelectedPath(_, _)
SelectedPath(store, decisions) ==
    CASE store.kind = "None" ->
             [walked |-> <<>>, decisions |-> decisions, stopped |-> FALSE]
      [] store.kind = "TrailSeries" ->
             LET rest == SelectedPath(store.following, decisions)
             IN  [rest EXCEPT !.walked = <<store.mountain>> \o rest.walked]
      [] store.kind = "TrailSplit" ->
             IF decisions = <<>> \/ Head(decisions) = "STOP"
             THEN [walked |-> <<>>, decisions |-> <<>>, stopped |-> TRUE]
             ELSE LET branch == SelectedPath(
                                    IF Head(decisions) = "TOP"
                                    THEN store.top ELSE store.bottom,
                                    Tail(decisions))
                  IN  IF branch.stopped THEN branch
                      ELSE LET rest == SelectedPath(store.following,
                                                    branch.decisions)
                           IN  [rest EXCEPT
                                   !.walked = branch.walked \o rest.walked]

IsPrefix(p, l) == Len(p) <= Len(l) /\ SubSeq(l, 1, Len(p)) = p

\* C26: follow_path returns without raising on every finite trail (the
\* empty trail, splits with empty branches and splits whose following trail
\* is empty among them) and for every personality; it calls add_mountain
\* exactly once for each mountain on the selected path, in path order,
\* goes on after a branch with the trail that follows the innermost
\* enclosing split, and makes no further call after a STOP.
C26_FollowPathWalksSelectedPath ==
    /\ walk.status # "raised"
    /\ walk.status = "walking" =>
           IsPrefix(walk.walked,
                    SelectedPath(walk.trail, walk.decisions).walked)
    /\ walk.status = "returned" =>
           walk.walked = SelectedPath(walk.trail, walk.decisions).walked

\* whatever the call did before it raised or returned, the mountains it
\* handed to add_mountain are those of the selected path, in path order
WalkedAlongSelectedPath ==
    /\ walk.status \in {"walking", "raised"} =>
           IsPrefix(walk.walked,
                    SelectedPath(walk.trail, walk.decisions).walked)
    /\ walk.status = "returned" =>
           walk.walked = SelectedPath(walk.trail, walk.decisions).walked

\* every call returns or raises
FollowPathEnds == <>(walk.status \in {"returned", "raised"})

\* a call raises only when it comes to the end of the trail with no split
\* on the stack and not through a TrailSeries
RaisesOnlyAtEmptyEnd ==
    walk.status = "raised" =>
        /\ walk.current_store.kind = "None"
        /\ is_empty(walk.stack)

(***************************************************************************)
(* Properties of DoubleKeyTable._linear_probe                              *)
(***************************************************************************)
\* keys(), keys(k1), values(), values(k1) and len() of a table
Observed(ot, cnt) ==
    [keys |-> DKT_keys(ot, None),
     keys_of |-> [key1 \in Keys1 |-> DKT_keys(ot, key1)],
     values |-> DKT_values(ot, None),
     values_of |-> [key1 \in Keys1 |-> DKT_values(ot, key1)],
     len |-> DKT_len(cnt)]

\* C31: _linear_probe(k1,k2,is_insert) is a pure position query: with
\* is_insert false it raises KeyError when (k1,k2) is not stored, and with
\* either flag it leaves keys(), values() and len() unchanged, so that no
\* outer key is without a stored pair after any interleaving of
\* _linear_probe calls with set and delete.
C31_LinearProbeIsPure ==
    /\ [](\A key1 \in Keys1 :
              LPT_contains(outer_table, key1) =>
                  \E key2 \in Keys2 : stored[<<key1, key2>>] # NoValue)
    /\ [][last'.op = "_linear_probe" =>
              /\ (~last'.is_insert /\ last'.was = NoValue) =>
                     last'.exc = "KeyError"
              /\ Observed(outer_table', count') = Observed(outer_table, count)
         ]_vars

\* with is_insert false the call changes nothing and raises KeyError
\* exactly when the pair is not stored
LookupProbeIsPure ==
    [][(last'.op = "_linear_probe" /\ ~last'.is_insert) =>
           /\ outer_table' = outer_table
           /\ count' = count
           /\ last'.exc = (IF last'.was = NoValue THEN "KeyError" ELSE "none")
      ]_vars

\* with either flag the call leaves values() and len() as they were, and
\* every stored pair is still returned by get
ProbeKeepsValuesAndLen ==
    [][last'.op = "_linear_probe" =>
           /\ DKT_values(outer_table', None) = DKT_values(outer_table, None)
           /\ DKT_len(count') = DKT_len(count)
           /\ \A p \in Pairs :
                  stored[p] # NoValue =>
                      DKT_getitem(outer_table', p[1], p[2]).val = stored[p]
      ]_vars

\* a call that returns names the slots of key1 and, when stored, of key2
ProbeReturnsSlots ==
    (last.op = "_linear_probe" /\ last.exc = "none") =>
        /\ outer_table.array[last.pos[1]][1] = last.k1
        /\ LET inner_table == outer_table.array[last.pos[1]][2]
           IN  IF last.was = NoValue
               THEN inner_table.array[last.pos[2]] = None
               ELSE inner_table.array[last.pos[2]] = <<last.k2, last.was>>

====
